---- MODULE Spec2Model ----
(***************************************************************************)
(* Model of crates/language_models/src/provider/mistral.rs:                *)
(*   - into_mistral: vendor-neutral request -> Mistral wire request        *)
(*   - MistralEventMapper: wire stream chunks -> completion events         *)
(*   - MistralLanguageModel::stream_completion behind its RateLimiter      *)
(* Strings that are only compared or appended are TLA+ strings; strings    *)
(* that are parsed (tool-call arguments) are sequences of one-character    *)
(* strings.  Option<T> is a sequence of length 0 (None) or 1 (Some).       *)
(***************************************************************************)
EXTENDS Integers, Sequences, FiniteSets, TLC

(* ---------------------------------------------------------------------- *)
(* Bounds of the model                                                     *)
(* ---------------------------------------------------------------------- *)
MaxMsgs == 2

MaxParts == 3

MaxTools == 2

MaxChunks == 2

MaxCalls == 2

NumCalls == 5

MaxTasks == 2

(* ---------------------------------------------------------------------- *)
(* Option<T>                                                               *)
(* ---------------------------------------------------------------------- *)
None == << >>

Some(x) == << x >>

IsSome(o) == Len(o) = 1

Unwrap(o) == o[1]

Last(s) == s[Len(s)]

Front(s) == SubSeq(s, 1, Len(s) - 1)

(* ---------------------------------------------------------------------- *)
(* JSON text over the characters "[", "]" and digits.                      *)
(* A value is a number (non-empty digit string without a leading zero) or  *)
(* an array "[]" / "[v]"; with no comma in the alphabet an array holds at  *)
(* most one element.                                                       *)
(* ---------------------------------------------------------------------- *)
Digits == <<"0", "1", "2", "3", "4", "5", "6", "7", "8", "9">>

DigitVal(c) == (CHOOSE i \in 1..10 : Digits[i] = c) - 1

IsDigit(c) == \E i \in 1..10 : Digits[i] = c

RECURSIVE NumVal(_)
NumVal(s) == IF s = << >> THEN 0 ELSE 10 * NumVal(Front(s)) + DigitVal(Last(s))

IsNumber(s) ==
    /\ Len(s) > 0
    /\ \A i \in 1..Len(s) : IsDigit(s[i])
    /\ (Len(s) > 1 => s[1] # "0")

JsonErr == [ok |-> FALSE, error |-> "invalid JSON"]

JsonOk(v) == [ok |-> TRUE, value |-> v]

\* serde_json::Value::from_str
RECURSIVE FromStr(_)
FromStr(s) ==
    IF IsNumber(s) THEN JsonOk([t |-> "num", n |-> NumVal(s)])
    ELSE IF Len(s) >= 2 /\ s[1] = "[" /\ s[Len(s)] = "]"
    THEN LET inner == SubSeq(s, 2, Len(s) - 1)
         IN  IF inner = << >> THEN JsonOk([t |-> "arr", elems |-> << >>])
             ELSE LET p == FromStr(inner)
                  IN  IF p.ok THEN JsonOk([t |-> "arr", elems |-> << p.value >>])
                      ELSE JsonErr
    ELSE JsonErr

RECURSIVE NatToStr(_)
NatToStr(n) ==
    IF n < 10 THEN << Digits[n + 1] >>
    ELSE NatToStr(n \div 10) \o << Digits[(n % 10) + 1] >>

\* serde_json::to_string
RECURSIVE ToJsonString(_)
ToJsonString(v) ==
    IF v.t = "num" THEN NatToStr(v.n)
    ELSE IF v.elems = << >> THEN <<"[", "]">>
    ELSE <<"[">> \o ToJsonString(v.elems[1]) \o <<"]">>

(* ---------------------------------------------------------------------- *)
(* Vendor-neutral request (language_model::LanguageModelRequest)           *)
(* ---------------------------------------------------------------------- *)
Roles == {"User", "Assistant", "System"}

Text(t) == [kind |-> "Text", text |-> t]

Thinking(t) == [kind |-> "Thinking", text |-> t]

RedactedThinking == [kind |-> "RedactedThinking"]

Image(src) == [kind |-> "Image", source |-> src]

ToolUse(id, name, input) == [kind |-> "ToolUse", id |-> id, name |-> name, input |-> input]

ToolResult(id, c) == [kind |-> "ToolResult", tool_use_id |-> id, content |-> c]

ResultText(t) == [kind |-> "Text", text |-> t]

ResultImage == [kind |-> "Image"]

\* The content parts requests are built from.
Contents ==
    { Text("hi"), Text(""), Thinking("hm"), RedactedThinking, Image("base64data"),
      ToolUse("c1", "read", [t |-> "arr", elems |-> << >>]),
      ToolUse("c2", "edit", [t |-> "arr", elems |-> << >>]),
      ToolResult("c1", ResultText("ok")), ToolResult("c2", ResultImage) }

ToolChoices == { None, Some("Auto"), Some("Any"), Some("None") }

ToolNames == { "read", "edit" }

Temperatures == { None, Some("0.5") }

(* ---------------------------------------------------------------------- *)
(* Wire request (mistral::Request)                                         *)
(* ---------------------------------------------------------------------- *)
TextPart(t) == [type |-> "text", text |-> t]

ImageUrlPart(u) == [type |-> "image_url", image_url |-> u]

Plain(t) == [kind |-> "Plain", content |-> t]

Multipart(ps) == [kind |-> "Multipart", content |-> ps]

\* mistral::MessageContent::empty
EmptyContent == Plain("")

\* mistral::MessageContent::push_part
PushPart(mc, part) ==
    IF mc.kind = "Plain"
    THEN IF part.type = "text" THEN Plain(mc.content \o part.text)
         ELSE Multipart((IF mc.content = "" THEN << >> ELSE << TextPart(mc.content) >>)
                        \o << part >>)
    ELSE Multipart(Append(mc.content, part))

\* LanguageModelImage::to_base64_url
ToBase64Url(src) == "data:image/png;base64," \o src

SystemMsg(t) == [role |-> "System", content |-> t]

UserMsg(mc) == [role |-> "User", content |-> mc]

AssistantMsg(c, calls) == [role |-> "Assistant", content |-> c, tool_calls |-> calls]

ToolMsg(c, id) == [role |-> "Tool", content |-> c, tool_call_id |-> id]

ImagePlaceholder ==
    "[Tool responded with an image, but Zed doesn't support these in Mistral models yet]"

WireToolCall(tu) ==
    [id |-> tu.id, function |-> [name |-> tu.name, arguments |-> ToJsonString(tu.input)]]

(* ---------------------------------------------------------------------- *)
(* into_mistral: per-role translation                                      *)
(* ---------------------------------------------------------------------- *)
IsEmptyPlain(mc) == mc.kind = "Plain" /\ mc.content = ""

ToolResultText(c) == IF c.kind = "Text" THEN c.text ELSE ImagePlaceholder

\* Variant of the User arm that drops a tool result whose content is an image.
RECURSIVE UserPartsDropImageResult(_, _, _)
UserPartsDropImageResult(parts, messages, mc) ==
    IF parts = << >> THEN [messages |-> messages, content |-> mc]
    ELSE LET c == Head(parts)
         IN  CASE c.kind \in {"Text", "Thinking"} ->
                    UserPartsDropImageResult(Tail(parts), messages,
                                             PushPart(mc, TextPart(c.text)))
               [] c.kind = "Image" ->
                    UserPartsDropImageResult(Tail(parts), messages,
                              PushPart(mc, ImageUrlPart(ToBase64Url(c.source))))
               [] c.kind = "ToolResult" /\ c.content.kind = "Text" ->
                    UserPartsDropImageResult(Tail(parts),
                              Append(messages, ToolMsg(c.content.text, c.tool_use_id)),
                              mc)
               [] OTHER -> UserPartsDropImageResult(Tail(parts), messages, mc)

\* Variant of the User arm that drops images.
RECURSIVE UserPartsDropImage(_, _, _)
UserPartsDropImage(parts, messages, mc) ==
    IF parts = << >> THEN [messages |-> messages, content |-> mc]
    ELSE LET c == Head(parts)
         IN  CASE c.kind \in {"Text", "Thinking"} ->
                    UserPartsDropImage(Tail(parts), messages,
                                       PushPart(mc, TextPart(c.text)))
               [] c.kind = "ToolResult" ->
                    UserPartsDropImage(Tail(parts),
                              Append(messages,
                                     ToolMsg(ToolResultText(c.content), c.tool_use_id)),
                              mc)
               [] OTHER -> UserPartsDropImage(Tail(parts), messages, mc)

\* Role::User arm: the loop over message.content.  Tool results are pushed to
\* `messages` while the loop runs; text and images are folded into `mc`.
RECURSIVE UserParts(_, _, _)
UserParts(parts, messages, mc) ==
    IF parts = << >> THEN [messages |-> messages, content |-> mc]
    ELSE LET c == Head(parts)
         IN  CASE c.kind \in {"Text", "Thinking"} ->
                    UserParts(Tail(parts), messages, PushPart(mc, TextPart(c.text)))
               [] c.kind = "Image" ->
                    UserParts(Tail(parts), messages,
                              PushPart(mc, ImageUrlPart(ToBase64Url(c.source))))
               [] c.kind = "ToolResult" ->
                    UserParts(Tail(parts),
                              Append(messages,
                                     ToolMsg(ToolResultText(c.content), c.tool_use_id)),
                              mc)
               [] OTHER -> UserParts(Tail(parts), messages, mc)

\* Variant of the User arm that pushes the User message whatever its content.
UserTurnAlways(message, messages) ==
    LET r == UserParts(message.content, messages, EmptyContent)
    IN  Append(r.messages, UserMsg(r.content))

\* Variant of the User arm that pushes the User message before its tool results.
UserTurnUserFirst(message, messages) ==
    LET r == UserParts(message.content, << >>, EmptyContent)
    IN  IF ~IsEmptyPlain(r.content)
        THEN messages \o << UserMsg(r.content) >> \o r.messages
        ELSE messages \o r.messages

\* Role::User arm: the message is pushed after the loop, unless it is empty.
UserTurn(message, messages) ==
    LET r == UserParts(message.content, messages, EmptyContent)
    IN  IF ~IsEmptyPlain(r.content) THEN Append(r.messages, UserMsg(r.content))
        ELSE r.messages

\* Variant of the Assistant arm in which every tool use starts a new message.
RECURSIVE AssistantTurnAlwaysNew(_, _)
AssistantTurnAlwaysNew(parts, messages) ==
    IF parts = << >> THEN messages
    ELSE LET c == Head(parts)
         IN  CASE c.kind \in {"Text", "Thinking"} ->
                    AssistantTurnAlwaysNew(Tail(parts),
                                  Append(messages, AssistantMsg(Some(c.text), << >>)))
               [] c.kind = "ToolUse" ->
                    AssistantTurnAlwaysNew(Tail(parts),
                             Append(messages, AssistantMsg(None, << WireToolCall(c) >>)))
               [] OTHER -> AssistantTurnAlwaysNew(Tail(parts), messages)

\* Role::Assistant arm.
RECURSIVE AssistantTurn(_, _)
AssistantTurn(parts, messages) ==
    IF parts = << >> THEN messages
    ELSE LET c == Head(parts)
         IN  CASE c.kind \in {"Text", "Thinking"} ->
                    AssistantTurn(Tail(parts),
                                  Append(messages, AssistantMsg(Some(c.text), << >>)))
               [] c.kind = "ToolUse" ->
                    IF messages # << >> /\ Last(messages).role = "Assistant"
                    THEN AssistantTurn(Tail(parts),
                             Append(Front(messages),
                                    AssistantMsg(Last(messages).content,
                                                 Append(Last(messages).tool_calls,
                                                        WireToolCall(c)))))
                    ELSE AssistantTurn(Tail(parts),
                             Append(messages, AssistantMsg(None, << WireToolCall(c) >>)))
               [] OTHER -> AssistantTurn(Tail(parts), messages)

\* Variant of the System arm that skips empty text.
RECURSIVE SystemTurnSkipEmpty(_, _)
SystemTurnSkipEmpty(parts, messages) ==
    IF parts = << >> THEN messages
    ELSE LET c == Head(parts)
         IN  IF c.kind \in {"Text", "Thinking"} /\ c.text # ""
             THEN SystemTurnSkipEmpty(Tail(parts), Append(messages, SystemMsg(c.text)))
             ELSE SystemTurnSkipEmpty(Tail(parts), messages)

\* Role::System arm.
RECURSIVE SystemTurn(_, _)
SystemTurn(parts, messages) ==
    IF parts = << >> THEN messages
    ELSE LET c == Head(parts)
         IN  IF c.kind \in {"Text", "Thinking"}
             THEN SystemTurn(Tail(parts), Append(messages, SystemMsg(c.text)))
             ELSE SystemTurn(Tail(parts), messages)

\* for message in &request.messages { match message.role { ... } }
RECURSIVE TranslateMessages(_, _)
TranslateMessages(input, messages) ==
    IF input = << >> THEN messages
    ELSE LET m == Head(input)
         IN  TranslateMessages(Tail(input),
                 CASE m.role = "User" -> UserTurn(m, messages)
                   [] m.role = "Assistant" -> AssistantTurn(m.content, messages)
                   [] m.role = "System" -> SystemTurn(m.content, messages))

Placeholder == AssistantMsg(Some(" "), << >>)

\* Variant of the repair pass that never inserts a placeholder.
FixMessagesNoInsert(messages) == messages

\* Variant of the repair pass that does not look at the role of the next message.
RECURSIVE FixMessagesAnyNext(_)
FixMessagesAnyNext(messages) ==
    IF messages = << >> THEN << >>
    ELSE LET message == Head(messages)
             rest == Tail(messages)
         IN  << message >>
             \o (IF message.role = "Tool" /\ rest # << >>
                 THEN << Placeholder >> ELSE << >>)
             \o FixMessagesAnyNext(rest)

\* Variant of the repair pass that puts the placeholder in the place of the User
\* message.
RECURSIVE FixMessagesReplace(_)
FixMessagesReplace(messages) ==
    IF messages = << >> THEN << >>
    ELSE LET message == Head(messages)
             rest == Tail(messages)
         IN  IF message.role = "Tool" /\ rest # << >> /\ Head(rest).role = "User"
             THEN << message, Placeholder >> \o FixMessagesReplace(Tail(rest))
             ELSE << message >> \o FixMessagesReplace(rest)

\* The repair pass: `fixed_messages` built from a peekable iterator.
RECURSIVE FixMessages(_)
FixMessages(messages) ==
    IF messages = << >> THEN << >>
    ELSE LET message == Head(messages)
             rest == Tail(messages)
             is_tool_message == message.role = "Tool"
         IN  << message >>
             \o (IF is_tool_message /\ rest # << >> /\ Head(rest).role = "User"
                 THEN << Placeholder >> ELSE << >>)
             \o FixMessages(rest)

\* Variant of the tool_choice match whose Auto arm has no guard.
WireToolChoiceUnguarded(tool_choice, tools) ==
    CASE tool_choice = Some("Auto") -> Some("auto")
      [] tool_choice = Some("Any") /\ tools # << >> -> Some("any")
      [] tool_choice = Some("None") -> Some("none")
      [] OTHER -> IF tools # << >> THEN Some("auto") ELSE None

\* Variant of the tool_choice match without the default to Auto.
WireToolChoiceNoDefault(tool_choice, tools) ==
    CASE tool_choice = Some("Auto") /\ tools # << >> -> Some("auto")
      [] tool_choice = Some("Any") /\ tools # << >> -> Some("any")
      [] tool_choice = Some("None") -> Some("none")
      [] OTHER -> None

\* tool_choice: match request.tool_choice { ... }
WireToolChoice(tool_choice, tools) ==
    CASE tool_choice = Some("Auto") /\ tools # << >> -> Some("auto")
      [] tool_choice = Some("Any") /\ tools # << >> -> Some("any")
      [] tool_choice = Some("None") -> Some("none")
      [] OTHER -> IF tools # << >> THEN Some("auto") ELSE None

WireToolDefinition(tool) ==
    [type |-> "function",
     function |-> [name |-> tool.name,
                   description |-> Some(tool.description),
                   parameters |-> Some(tool.input_schema)]]

IntoMistral(req, model, max_output_tokens) ==
    [model |-> model,
     messages |-> FixMessages(TranslateMessages(req.messages, << >>)),
     stream |-> TRUE,
     max_tokens |-> max_output_tokens,
     temperature |-> req.temperature,
     response_format |-> None,
     tool_choice |-> WireToolChoice(req.tool_choice, req.tools),
     parallel_tool_calls |-> IF req.tools # << >> THEN Some(FALSE) ELSE None,
     tools |-> [i \in 1..Len(req.tools) |-> WireToolDefinition(req.tools[i])]]

(* ---------------------------------------------------------------------- *)
(* Stream chunks (mistral::StreamResponse)                                 *)
(* ---------------------------------------------------------------------- *)
Indexes == {0, 1}

ArgChars == {"[", "1", "]"}

ToolCallChunk(index, id, function) == [index |-> index, id |-> id, function |-> function]

FunctionChunk(name, arguments) == [name |-> name, arguments |-> arguments]

\* The tool-call fragments a delta may carry for one index.
FragmentsOf(i) ==
    { ToolCallChunk(i, Some("a"), Some(FunctionChunk(Some("f"), None))),
      ToolCallChunk(i, Some("a"), None),
      ToolCallChunk(i, Some(""), None),
      ToolCallChunk(i, None, Some(FunctionChunk(Some("f"), None))) }
    \cup { ToolCallChunk(i, None, Some(FunctionChunk(None, Some(<< c >>)))) : c \in ArgChars }

Fragments == UNION { FragmentsOf(i) : i \in Indexes }

ToolCallLists == UNION { [1..n -> Fragments] : n \in 0..MaxCalls }

Usage == [prompt_tokens |-> 7, completion_tokens |-> 3]

FinishReasons == { None, Some("stop"), Some("tool_calls"), Some("length") }

Choices ==
    [delta : [content : { None, Some("t") },
              tool_calls : { None } \cup { Some(l) : l \in ToolCallLists }],
     finish_reason : FinishReasons]

Chunks ==
    [choices : { << >> } \cup { << c >> : c \in Choices },
     usage : { None, Some(Usage) }]

(* ---------------------------------------------------------------------- *)
(* Completion events (LanguageModelCompletionEvent, or Err(..))            *)
(* ---------------------------------------------------------------------- *)
TextEvent(t) == [type |-> "Text", text |-> t]

UsageUpdate(u) ==
    [type |-> "UsageUpdate",
     input_tokens |-> u.prompt_tokens,
     output_tokens |-> u.completion_tokens,
     cache_creation_input_tokens |-> 0,
     cache_read_input_tokens |-> 0]

ToolUseEvent(tc, input) ==
    [type |-> "ToolUse", id |-> tc.id, name |-> tc.name, is_input_complete |-> TRUE,
     input |-> input, raw_input |-> tc.arguments]

ToolUseJsonParseError(tc, error) ==
    [type |-> "ToolUseJsonParseError", id |-> tc.id, tool_name |-> tc.name,
     raw_input |-> tc.arguments, json_parse_error |-> error]

Stop(reason) == [type |-> "Stop", reason |-> reason]

ErrorEvent(msg) == [type |-> "Error", message |-> msg]

(* ---------------------------------------------------------------------- *)
(* MistralEventMapper                                                      *)
(* ---------------------------------------------------------------------- *)
EmptyMap == [i \in {} |-> None]

\* RawToolCall::default()
DefaultRawToolCall == [id |-> "", name |-> "", arguments |-> << >>]

\* Variant of the fragment step that assigns the argument text instead of appending.
ApplyToolCallAssign(map, tool_call) ==
    LET entry == IF tool_call.index \in DOMAIN map THEN map[tool_call.index]
                 ELSE DefaultRawToolCall
        e1 == IF IsSome(tool_call.id) THEN [entry EXCEPT !.id = Unwrap(tool_call.id)]
              ELSE entry
        e2 == IF IsSome(tool_call.function) /\ IsSome(Unwrap(tool_call.function).name)
              THEN [e1 EXCEPT !.name = Unwrap(Unwrap(tool_call.function).name)]
              ELSE e1
        e3 == IF IsSome(tool_call.function) /\ IsSome(Unwrap(tool_call.function).arguments)
              THEN [e2 EXCEPT !.arguments = Unwrap(Unwrap(tool_call.function).arguments)]
              ELSE e2
    IN  [i \in DOMAIN map \cup {tool_call.index} |->
            IF i = tool_call.index THEN e3 ELSE map[i]]

\* One iteration of `for tool_call in tool_calls` in map_event.
ApplyToolCall(map, tool_call) ==
    LET entry == IF tool_call.index \in DOMAIN map THEN map[tool_call.index]
                 ELSE DefaultRawToolCall
        e1 == IF IsSome(tool_call.id) THEN [entry EXCEPT !.id = Unwrap(tool_call.id)]
              ELSE entry
        e2 == IF IsSome(tool_call.function) /\ IsSome(Unwrap(tool_call.function).name)
              THEN [e1 EXCEPT !.name = Unwrap(Unwrap(tool_call.function).name)]
              ELSE e1
        e3 == IF IsSome(tool_call.function) /\ IsSome(Unwrap(tool_call.function).arguments)
              THEN [e2 EXCEPT !.arguments = @ \o Unwrap(Unwrap(tool_call.function).arguments)]
              ELSE e2
    IN  [i \in DOMAIN map \cup {tool_call.index} |->
            IF i = tool_call.index THEN e3 ELSE map[i]]

RECURSIVE ApplyToolCalls(_, _)
ApplyToolCalls(map, tool_calls) ==
    IF tool_calls = << >> THEN map
    ELSE ApplyToolCalls(ApplyToolCall(map, Head(tool_calls)), Tail(tool_calls))

\* Variant of the drain loop body that reports unparsable arguments as an error.
ProcessToolCallParseFatal(tool_call) ==
    IF tool_call.id = "" \/ tool_call.name = ""
    THEN ErrorEvent("Received incomplete tool call: missing id or name")
    ELSE LET parsed == FromStr(tool_call.arguments)
         IN  IF parsed.ok THEN ToolUseEvent(tool_call, parsed.value)
             ELSE ErrorEvent(parsed.error)

\* The body of the drain loop of process_tool_calls for one entry.
ProcessToolCall(tool_call) ==
    IF tool_call.id = "" \/ tool_call.name = ""
    THEN ErrorEvent("Received incomplete tool call: missing id or name")
    ELSE LET parsed == FromStr(tool_call.arguments)
         IN  IF parsed.ok THEN ToolUseEvent(tool_call, parsed.value)
             ELSE ToolUseJsonParseError(tool_call, parsed.error)

IsIncomplete(tool_call) == tool_call.id = "" \/ tool_call.name = ""

\* Variant of process_tool_calls that leaves the loop at the first incomplete entry.
ProcessToolCallsAbort(map, order) ==
    LET bad == { k \in 1..Len(order) : IsIncomplete(map[order[k]]) }
        n == IF bad = {} THEN Len(order) ELSE CHOOSE k \in bad : \A j \in bad : k <= j
    IN  [k \in 1..n |-> ProcessToolCall(map[order[k]])]

\* process_tool_calls; `order` is the order in which HashMap::drain yields the keys.
ProcessToolCalls(map, order) ==
    [k \in 1..Len(order) |-> ProcessToolCall(map[order[k]])]

\* Variant of the drain that leaves the entries in the map.
AfterDrainKeep(map) == map

\* What tool_calls_by_index.drain() leaves in the map once the loop has run.
AfterDrain(map) == EmptyMap

\* The orders in which a set of keys can be iterated.
Orders(S) ==
    { o \in [1..Cardinality(S) -> S] : \A i, j \in 1..Cardinality(S) : o[i] = o[j] => i = j }

\* Variant of the match whose "stop" arm reports the tool-use stop reason.
FinishEventsStopAsToolUse(finish_reason, map, order) ==
    CASE finish_reason = None -> << >>
      [] finish_reason = Some("stop") -> << Stop("ToolUse") >>
      [] finish_reason = Some("tool_calls") ->
            ProcessToolCalls(map, order) \o << Stop("ToolUse") >>
      [] OTHER -> << Stop("EndTurn") >>

\* Variant of the match that fails closed on an unexpected finish reason.
FinishEventsFailClosed(finish_reason, map, order) ==
    CASE finish_reason = None -> << >>
      [] finish_reason = Some("stop") -> << Stop("EndTurn") >>
      [] finish_reason = Some("tool_calls") ->
            ProcessToolCalls(map, order) \o << Stop("ToolUse") >>
      [] OTHER -> << ErrorEvent("Unexpected Mistral stop_reason") >>

\* Variant of the match that reports a stop when the chunk has no finish reason.
FinishEventsNoneAsStop(finish_reason, map, order) ==
    CASE finish_reason = None -> << Stop("EndTurn") >>
      [] finish_reason = Some("stop") -> << Stop("EndTurn") >>
      [] finish_reason = Some("tool_calls") ->
            ProcessToolCalls(map, order) \o << Stop("ToolUse") >>
      [] OTHER -> << Stop("EndTurn") >>

\* Variant of the match that pushes the stop event before the drained entries.
FinishEventsStopFirst(finish_reason, map, order) ==
    CASE finish_reason = None -> << >>
      [] finish_reason = Some("stop") -> << Stop("EndTurn") >>
      [] finish_reason = Some("tool_calls") ->
            << Stop("ToolUse") >> \o ProcessToolCalls(map, order)
      [] OTHER -> << Stop("EndTurn") >>

\* The match on finish_reason in map_event.
FinishEvents(finish_reason, map, order) ==
    CASE finish_reason = None -> << >>
      [] finish_reason = Some("stop") -> << Stop("EndTurn") >>
      [] finish_reason = Some("tool_calls") ->
            ProcessToolCalls(map, order) \o << Stop("ToolUse") >>
      [] OTHER -> << Stop("EndTurn") >>

\* Variant that skips the fragments of the chunk that carries "tool_calls".
ApplyDeltaNotOnFinish(map, choice) ==
    IF IsSome(choice.delta.tool_calls) /\ choice.finish_reason # Some("tool_calls")
    THEN ApplyToolCalls(map, Unwrap(choice.delta.tool_calls)) ELSE map

\* The `if let Some(tool_calls) = choice.delta.tool_calls` step of map_event.
ApplyDelta(map, choice) ==
    IF IsSome(choice.delta.tool_calls)
    THEN ApplyToolCalls(map, Unwrap(choice.delta.tool_calls)) ELSE map

\* Variant in which every finish reason drains the map.
DrainsOnAnyFinish(chunk) ==
    chunk.choices # << >> /\ Head(chunk.choices).finish_reason # None

Drains(chunk) ==
    chunk.choices # << >> /\ Head(chunk.choices).finish_reason = Some("tool_calls")

\* Variant of the early return that goes on to report the usage totals.
NoChoicesWithUsage(map, chunk) ==
    [events |-> << ErrorEvent("Response contained no choices") >>
                \o (IF IsSome(chunk.usage) THEN << UsageUpdate(Unwrap(chunk.usage)) >>
                    ELSE << >>),
     map |-> map, drained |-> EmptyMap]

\* The early return of map_event: `let Some(choice) = event.choices.first() else`.
NoChoices(map, chunk) ==
    [events |-> << ErrorEvent("Response contained no choices") >>,
     map |-> map, drained |-> EmptyMap]

\* map_event: the returned events, the map it leaves behind and what it drained.
MapEventResult(map, chunk, order) ==
    IF chunk.choices = << >>
    THEN NoChoices(map, chunk)
    ELSE LET choice == Head(chunk.choices)
             text == IF IsSome(choice.delta.content)
                     THEN << TextEvent(Unwrap(choice.delta.content)) >> ELSE << >>
             map1 == ApplyDelta(map, choice)
             usage == IF IsSome(chunk.usage)
                      THEN << UsageUpdate(Unwrap(chunk.usage)) >> ELSE << >>
         IN  [events |-> text \o usage \o FinishEvents(choice.finish_reason, map1, order),
              map |-> IF Drains(chunk) THEN AfterDrain(map1) ELSE map1,
              drained |-> IF Drains(chunk) THEN map1 ELSE EmptyMap]

\* Variant of the Err arm of map_stream that also closes the turn.
MapErrWithStop(map, error) ==
    [events |-> << ErrorEvent(error), Stop("EndTurn") >>, map |-> map, drained |-> EmptyMap]

\* The Err arm of map_stream: vec![Err(LanguageModelCompletionError::from(error))].
MapErr(map, error) ==
    [events |-> << ErrorEvent(error) >>, map |-> map, drained |-> EmptyMap]

\* The keys HashMap::drain iterates over for this chunk.
DrainKeys(map, chunk) ==
    IF Drains(chunk) THEN DOMAIN ApplyDelta(map, Head(chunk.choices)) ELSE {}

\* History of the argument fragments: per index, the fragments in arrival order.
RECURSIVE RecordFragments(_, _)
RecordFragments(log, tool_calls) ==
    IF tool_calls = << >> THEN log
    ELSE LET tc == Head(tool_calls)
             old == IF tc.index \in DOMAIN log THEN log[tc.index] ELSE << >>
             new == IF IsSome(tc.function) /\ IsSome(Unwrap(tc.function).arguments)
                    THEN Append(old, Unwrap(Unwrap(tc.function).arguments)) ELSE old
         IN  RecordFragments([i \in DOMAIN log \cup {tc.index} |->
                                 IF i = tc.index THEN new ELSE log[i]],
                             Tail(tool_calls))

ChunkToolCalls(chunk) ==
    IF chunk.choices # << >> /\ IsSome(Head(chunk.choices).delta.tool_calls)
    THEN Unwrap(Head(chunk.choices).delta.tool_calls) ELSE << >>

(* ---------------------------------------------------------------------- *)
(* State                                                                   *)
(* ---------------------------------------------------------------------- *)
VARIABLES
    request,              \* the LanguageModelRequest the caller has built
    wire,                 \* None, or Some(mistral::Request returned by into_mistral)
    tool_calls_by_index,  \* MistralEventMapper.tool_calls_by_index
    event,                \* None, or Some(chunk last passed to map_event)
    events,               \* the Vec returned by the last map_event call
    drained,              \* the entries the last map_event call took out of the map
    arrived,              \* per index: argument fragments received since the last drain
    ndrains,              \* chunks with finish_reason "tool_calls" processed so far
    nchunks,              \* chunks processed by the mapper so far
    transport,            \* "open", or "failed" once the chunk stream gave an error item
    api_key,              \* State.api_key
    streams,              \* per stream_completion call: where it is and what it holds
    permits,              \* free permits of request_limiter
    waited,               \* None, or Some(first call set up with no free permit)
    api_key_from_env,     \* State.api_key_from_env
    stored,               \* None, or Some(key held by the credentials provider)
    tasks                 \* the spawned authenticate / set / reset tasks still running

translateVars == << request, wire >>

mapperVars ==
    << tool_calls_by_index, event, events, drained, arrived, ndrains, nchunks, transport >>

authVars == << api_key_from_env, stored, tasks >>

limiterVars == << api_key, streams, permits, waited, authVars >>

vars ==
    << request, wire, tool_calls_by_index, event, events, drained, arrived, ndrains, nchunks,
       transport, api_key, streams, permits, waited, api_key_from_env, stored, tasks >>

MapperIdle ==
    /\ tool_calls_by_index = EmptyMap
    /\ event = None
    /\ events = << >>
    /\ drained = EmptyMap
    /\ arrived = EmptyMap
    /\ ndrains = 0
    /\ nchunks = 0
    /\ transport = "open"

\* Variant of the limiter with one permit more.
PermitsFive == 4 + 1

\* Variant of the limiter with no permit.
PermitsNone == 4 - 4

\* request_limiter: RateLimiter::new(4)
Permits == 4

Calls == 1..NumCalls

IdleStream == [pc |-> "idle", api_key |-> None, sent |-> << >>, result |-> ""]

\* MistralLanguageModelProvider::new and create_language_model
LimiterIdle ==
    /\ api_key = None
    /\ streams = [c \in Calls |-> IdleStream]
    /\ permits = Permits
    /\ waited = None
    /\ api_key_from_env = FALSE
    /\ stored = None
    /\ tasks = {}

(* ---------------------------------------------------------------------- *)
(* Building a request and translating it                                   *)
(* ---------------------------------------------------------------------- *)
ToolDef(name) == [name |-> name, description |-> "d", input_schema |-> "{}"]

EmptyRequest ==
    [messages |-> << >>, tools |-> << >>, tool_choice |-> None, temperature |-> None]

RECURSIVE TotalParts(_)
TotalParts(messages) ==
    IF messages = << >> THEN 0
    ELSE Len(Head(messages).content) + TotalParts(Tail(messages))

\* The caller appends a message to request.messages.
NewMessage ==
    /\ wire = None
    /\ Len(request.messages) < MaxMsgs
    /\ \E role \in Roles :
          request' = [request EXCEPT
                        !.messages = Append(@, [role |-> role, content |-> << >>])]
    /\ UNCHANGED << wire, mapperVars, limiterVars >>

\* The caller appends a content part to the last message.
PushContent ==
    /\ wire = None
    /\ request.messages # << >>
    /\ TotalParts(request.messages) < MaxParts
    /\ \E c \in Contents :
          request' = [request EXCEPT
                        !.messages[Len(request.messages)].content = Append(@, c)]
    /\ UNCHANGED << wire, mapperVars, limiterVars >>

\* into_mistral(request, model, max_output_tokens)
Translate ==
    /\ wire = None
    /\ wire' = Some(IntoMistral(request, "mistral-small-latest", None))
    /\ UNCHANGED << request, mapperVars, limiterVars >>

InitTranslate ==
    /\ request = EmptyRequest
    /\ wire = None
    /\ MapperIdle
    /\ LimiterIdle

NextTranslate == NewMessage \/ PushContent \/ Translate

SpecTranslate == InitTranslate /\ [][NextTranslate]_vars

\* Requests with a tool list, a tool choice and a temperature; the messages are
\* those of test_into_mistral_basic_conversion and test_into_mistral_with_image.
BasicMessages ==
    << [role |-> "System", content |-> << Text("System prompt") >>],
       [role |-> "User", content |-> << Text("Hello") >>] >>

ImageMessages ==
    << [role |-> "User",
        content |-> << Text("What's in this image?"), Image("base64data") >>] >>

ToolLists == UNION { [1..n -> { ToolDef(t) : t \in ToolNames }] : n \in 0..MaxTools }

InitToolChoice ==
    /\ request \in [messages : { BasicMessages, ImageMessages },
                    tools : ToolLists,
                    tool_choice : ToolChoices,
                    temperature : Temperatures]
    /\ wire = None
    /\ MapperIdle
    /\ LimiterIdle

NextToolChoice == Translate

SpecToolChoice == InitToolChoice /\ [][NextToolChoice]_vars

(* ---------------------------------------------------------------------- *)
(* Properties of into_mistral                                              *)
(* ---------------------------------------------------------------------- *)
Translated == wire # None

WireMessages == Unwrap(wire).messages

ToolThenUser(messages, i) ==
    /\ i < Len(messages)
    /\ messages[i].role = "Tool"
    /\ messages[i + 1].role = "User"

\* C1: in the message sequence returned by into_mistral no Tool message is
\* immediately followed by a User message.
C1_NoToolThenUser ==
    Translated => \A i \in 1..Len(WireMessages) : ~ToolThenUser(WireMessages, i)

\* A request whose translation had a Tool message directly before a User message:
\* the returned sequence has the placeholder between them.
C1_Witness ==
    /\ Translated
    /\ \E i \in 1..Len(WireMessages) :
          /\ i + 2 <= Len(WireMessages)
          /\ WireMessages[i].role = "Tool"
          /\ WireMessages[i + 1] = Placeholder
          /\ WireMessages[i + 2].role = "User"

\* C2: running the repair pass on the sequence into_mistral returned (which the
\* pass has already repaired) gives that sequence back unchanged.
C2_RepairIdempotent ==
    Translated => FixMessages(WireMessages) = WireMessages

\* The pass changed the translated sequence, and a second pass changes nothing.
C2_Witness ==
    /\ Translated
    /\ WireMessages # TranslateMessages(request.messages, << >>)
    /\ Len(WireMessages) = Len(TranslateMessages(request.messages, << >>)) + 1

\* C9 as stated: with an empty tool list the wire request has no tool_choice,
\* whatever choice was requested.
C9_EmptyToolsNoChoice ==
    (Translated /\ request.tools = << >>) => Unwrap(wire).tool_choice = None

\* C9 amended: with an empty tool list the wire request has no tool_choice when
\* Auto, Any or no choice was requested; a requested None is sent as none.
C9_EmptyToolsNoChoiceUnlessNone ==
    (Translated /\ request.tools = << >>) =>
        Unwrap(wire).tool_choice =
            (IF request.tool_choice = Some("None") THEN Some("none") ELSE None)

\* Auto was requested with an empty tool list and the request was translated.
C9_Witness ==
    /\ Translated
    /\ request.tools = << >>
    /\ request.tool_choice = Some("Auto")

\* C10: with a non-empty tool list the wire tool_choice is auto for Auto, any for
\* Any, none for None and auto when no choice is requested; a requested None is
\* sent as none for every tool list.
C10_ToolChoiceTable ==
    Translated =>
        /\ request.tools # << >> =>
              /\ request.tool_choice = Some("Auto") => Unwrap(wire).tool_choice = Some("auto")
              /\ request.tool_choice = Some("Any") => Unwrap(wire).tool_choice = Some("any")
              /\ request.tool_choice = Some("None") => Unwrap(wire).tool_choice = Some("none")
              /\ request.tool_choice = None => Unwrap(wire).tool_choice = Some("auto")
        /\ request.tool_choice = Some("None") => Unwrap(wire).tool_choice = Some("none")

\* No choice was requested with a non-empty tool list, and the wire choice is auto.
C10_Witness ==
    /\ Translated
    /\ request.tools # << >>
    /\ request.tool_choice = None
    /\ Unwrap(wire).tool_choice = Some("auto")

(* ---------------------------------------------------------------------- *)
(* The mapper consuming a stream                                           *)
(* ---------------------------------------------------------------------- *)
\* MistralEventMapper::new
InitMapper ==
    /\ request = EmptyRequest
    /\ wire = None
    /\ MapperIdle
    /\ LimiterIdle

\* The chunk stream of the transport ends with its first error item.
TransportOpen == transport = "open"

LastDrained == event # None /\ Drains(Unwrap(event))

\* map_stream: flat_map polls the next chunk only once the events of the previous
\* chunk have all been yielded; the chunk is then handed to map_event.
MapEvent ==
    /\ nchunks < MaxChunks
    /\ event = None
    /\ TransportOpen
    /\ \E chunk \in Chunks :
         \E order \in Orders(DrainKeys(tool_calls_by_index, chunk)) :
            LET r == MapEventResult(tool_calls_by_index, chunk, order)
            IN  /\ tool_calls_by_index' = r.map
                /\ events' = r.events
                /\ drained' = r.drained
                /\ event' = Some(chunk)
                /\ arrived' = RecordFragments(arrived, ChunkToolCalls(chunk))
                /\ ndrains' = IF Drains(chunk) THEN ndrains + 1 ELSE ndrains
    /\ nchunks' = nchunks + 1
    /\ UNCHANGED << transport, translateVars, limiterVars >>

\* map_stream: the chunk stream gives Err(error); the item is mapped without a
\* call of map_event.
MapError ==
    /\ nchunks < MaxChunks
    /\ event = None
    /\ TransportOpen
    /\ LET r == MapErr(tool_calls_by_index, "transport error")
       IN  /\ tool_calls_by_index' = r.map
           /\ events' = r.events
           /\ drained' = r.drained
    /\ transport' = "failed"
    /\ UNCHANGED << event, arrived, ndrains, nchunks, translateVars, limiterVars >>

\* map_stream: the consumer takes the events returned for the last chunk.
Yield ==
    /\ event # None \/ events # << >>
    /\ event' = None
    /\ events' = << >>
    /\ drained' = EmptyMap
    /\ arrived' = IF LastDrained THEN EmptyMap ELSE arrived
    /\ UNCHANGED << tool_calls_by_index, ndrains, nchunks, transport, translateVars, limiterVars >>

NextMapper == MapEvent \/ MapError \/ Yield

SpecMapper == InitMapper /\ [][NextMapper]_vars

(* ---------------------------------------------------------------------- *)
(* Properties of MistralEventMapper                                        *)
(* ---------------------------------------------------------------------- *)
Processed == event # None

LastChunk == Unwrap(event)

HasChoice == Processed /\ LastChunk.choices # << >>

LastFinish == Head(LastChunk.choices).finish_reason

EventsOfType(T) == { k \in 1..Len(events) : events[k].type \in T }

RECURSIVE Flatten(_)
Flatten(ss) == IF ss = << >> THEN << >> ELSE Head(ss) \o Flatten(Tail(ss))

\* The argument text an index has received since the last drain.
Received(i) == IF i \in DOMAIN arrived THEN Flatten(arrived[i]) ELSE << >>

IsComplete(tc) == tc.id # "" /\ tc.name # ""

IsValidJson(str) == FromStr(str).ok

\* C3: the tool-use event emitted for an index at a "tool_calls" finish carries as
\* raw_input the concatenation, in arrival order, of the argument fragments that
\* index received; an index with id, name and valid JSON gets such an event.
C3_RawInputIsConcatenation ==
    LastDrained =>
        /\ \A k \in EventsOfType({"ToolUse"}) :
              \E i \in DOMAIN drained :
                 /\ events[k].id = drained[i].id
                 /\ events[k].name = drained[i].name
                 /\ events[k].raw_input = Received(i)
        /\ \A i \in DOMAIN drained :
              (IsComplete(drained[i]) /\ IsValidJson(Received(i))) =>
                 \E k \in EventsOfType({"ToolUse"}) :
                    /\ events[k].id = drained[i].id
                    /\ events[k].raw_input = Received(i)

\* One index received three fragments, and the tool-use event carries their
\* concatenation.
C3_Witness ==
    /\ LastDrained
    /\ \E i \in DOMAIN arrived :
          /\ Len(arrived[i]) >= 3
          /\ \E k \in EventsOfType({"ToolUse"}) : events[k].raw_input = Flatten(arrived[i])

\* C4: at a "tool_calls" finish every entry without id or name yields an error
\* event and no tool-use event, and every entry with id, name and valid JSON
\* arguments still yields its tool-use event in the same result.
C4_IncompleteDoesNotAbortDrain ==
    LastDrained =>
        /\ Cardinality(EventsOfType({"Error"}))
              = Cardinality({ i \in DOMAIN drained : ~IsComplete(drained[i]) })
        /\ \A k \in EventsOfType({"ToolUse", "ToolUseJsonParseError"}) :
              events[k].id # "" /\ (IF events[k].type = "ToolUse" THEN events[k].name
                                    ELSE events[k].tool_name) # ""
        /\ Cardinality(EventsOfType({"ToolUse"}))
              = Cardinality({ i \in DOMAIN drained :
                                IsComplete(drained[i]) /\ IsValidJson(drained[i].arguments) })
        /\ \A i \in DOMAIN drained :
              (IsComplete(drained[i]) /\ IsValidJson(drained[i].arguments)) =>
                 \E k \in EventsOfType({"ToolUse"}) :
                    /\ events[k].id = drained[i].id
                    /\ events[k].name = drained[i].name
                    /\ events[k].raw_input = drained[i].arguments

\* One drain with an incomplete entry and a complete one: an error event and a
\* tool-use event in the same result.
C4_Witness ==
    /\ LastDrained
    /\ \E i, j \in DOMAIN drained :
          /\ ~IsComplete(drained[i])
          /\ IsComplete(drained[j]) /\ IsValidJson(drained[j].arguments)
    /\ EventsOfType({"Error"}) # {}
    /\ EventsOfType({"ToolUse"}) # {}

DrainEvents == EventsOfType({"ToolUse", "ToolUseJsonParseError", "Error"})

\* C5: a "tool_calls" finish yields exactly one event (tool-use, parse-error or
\* error) per index that received fragments since the previous drain, and leaves
\* the accumulator empty.
C5_DrainedExactlyOnce ==
    LastDrained =>
        /\ Cardinality(DrainEvents) = Cardinality(DOMAIN arrived)
        /\ tool_calls_by_index = EmptyMap

\* A second "tool_calls" finish in the same stream, after a first one, that drains
\* only what arrived in between.
C5_Witness ==
    /\ LastDrained
    /\ ndrains = 2
    /\ Cardinality(DOMAIN arrived) = 1
    /\ Cardinality(DrainEvents) = 1

IsFinishStepEvent(e) == e.type \notin {"Text", "UsageUpdate"}

\* C6: a chunk with finish_reason "stop" and nothing pending in the accumulator
\* yields, apart from its text and usage events, exactly stream-stop(end-of-turn).
C6_StopYieldsEndTurn ==
    (HasChoice /\ LastFinish = Some("stop") /\ tool_calls_by_index = EmptyMap) =>
        SelectSeq(events, IsFinishStepEvent) = << Stop("EndTurn") >>

\* The second chunk of a stream finishes with "stop" and nothing is pending.
C6_Witness ==
    /\ HasChoice
    /\ LastFinish = Some("stop")
    /\ tool_calls_by_index = EmptyMap
    /\ nchunks = 2

\* C7: a chunk whose finish_reason is neither "stop" nor "tool_calls" ends with
\* stream-stop(end-of-turn) and yields no error event.
C7_UnexpectedFinishFailsOpen ==
    (HasChoice /\ LastFinish \notin {None, Some("stop"), Some("tool_calls")}) =>
        /\ events # << >>
        /\ Last(events) = Stop("EndTurn")
        /\ EventsOfType({"Error"}) = {}
        /\ Cardinality(EventsOfType({"Stop"})) = 1

\* A chunk with finish_reason "length" processed while tool calls are pending.
C7_Witness ==
    /\ HasChoice
    /\ LastFinish = Some("length")
    /\ tool_calls_by_index # EmptyMap
    /\ Last(events) = Stop("EndTurn")

\* C8: a chunk with no choice entries yields exactly one error event and nothing
\* else, usage totals or not, and leaves the accumulator as it was.
C8_NoChoicesOneError ==
    [][(event' # None /\ Unwrap(event').choices = << >>) =>
          /\ events' = << ErrorEvent("Response contained no choices") >>
          /\ tool_calls_by_index' = tool_calls_by_index]_vars

\* A chunk without choices but with usage totals, processed while a tool call is
\* pending.
C8_Witness ==
    /\ Processed
    /\ LastChunk.choices = << >>
    /\ IsSome(LastChunk.usage)
    /\ tool_calls_by_index # EmptyMap
    /\ events = << ErrorEvent("Response contained no choices") >>

(* ---------------------------------------------------------------------- *)
(* Properties of the per-role translation                                  *)
(* ---------------------------------------------------------------------- *)
Count(S) == Cardinality(S)

MsgIndexes == 1..Len(request.messages)

PartIndexes(m) == 1..Len(request.messages[m].content)

\* All (message, part) positions of the request.
Positions == { p \in MsgIndexes \X (1..MaxParts + 1) : p[2] \in PartIndexes(p[1]) }

PartAt(p) == request.messages[p[1]].content[p[2]]

WireIndexes == 1..Len(WireMessages)

WireOfRole(role) == { k \in WireIndexes : WireMessages[k].role = role }

\* The request has only System and User messages, and only Text parts.
OnlySystemUserText ==
    /\ \A m \in MsgIndexes : request.messages[m].role \in {"System", "User"}
    /\ \A p \in Positions : PartAt(p).kind = "Text"

HasNonEmptyText(m) == \E j \in PartIndexes(m) : request.messages[m].content[j].text # ""

\* C11 as stated: for a request of System and User messages with text parts only,
\* the number of wire messages is the number of non-empty input messages (read
\* either as messages with some non-empty text or as messages with some part),
\* and stream is true.
C11_CountIsNonEmptyMessages ==
    (Translated /\ OnlySystemUserText) =>
        /\ \/ Len(WireMessages) = Count({ m \in MsgIndexes : HasNonEmptyText(m) })
           \/ Len(WireMessages) = Count({ m \in MsgIndexes : PartIndexes(m) # {} })
        /\ Unwrap(wire).stream = TRUE

\* C11 amended: for such a request the number of wire messages is the number of
\* text parts in System messages plus the number of User messages whose text is
\* not empty, and stream is true.
C11_CountIsSystemPartsPlusUserTurns ==
    (Translated /\ OnlySystemUserText) =>
        /\ Len(WireMessages)
              = Count({ p \in Positions : request.messages[p[1]].role = "System" })
                + Count({ m \in MsgIndexes :
                            request.messages[m].role = "User" /\ HasNonEmptyText(m) })
        /\ Unwrap(wire).stream = TRUE

\* A System message with two text parts, one of them empty, and a User message
\* with text: three wire messages from two input messages.
C11_Witness ==
    /\ Translated
    /\ OnlySystemUserText
    /\ \E m \in MsgIndexes :
          /\ request.messages[m].role = "System"
          /\ Len(request.messages[m].content) = 2
          /\ \E j \in PartIndexes(m) : request.messages[m].content[j].text = ""
    /\ \E m \in MsgIndexes : request.messages[m].role = "User" /\ HasNonEmptyText(m)
    /\ Len(WireMessages) = 3

\* The first m messages of the request.
Prefix(m) == SubSeq(request.messages, 1, m)

\* The message list of into_mistral before and after the loop handles message m.
Before(m) == TranslateMessages(Prefix(m - 1), << >>)

After(m) == TranslateMessages(Prefix(m), << >>)

\* What the turn of message m appended to the message list.
TurnOutput(m) == SubSeq(After(m), Len(Before(m)) + 1, Len(After(m)))

RemoveAt(s, m) == SubSeq(s, 1, m - 1) \o SubSeq(s, m + 1, Len(s))

IsUserMessage(m) == request.messages[m].role = "User"

OnlyToolUse(m) ==
    /\ IsUserMessage(m)
    /\ \A j \in PartIndexes(m) : request.messages[m].content[j].kind = "ToolUse"

\* C12: a User message whose parts are all tool-use requests adds nothing to the
\* message list, neither a User nor a Tool message; the wire messages are those
\* of the request without that message.
C12_ToolUseOnlyUserTurnEmitsNothing ==
    Translated =>
        \A m \in MsgIndexes :
            OnlyToolUse(m) =>
                /\ After(m) = Before(m)
                /\ WireMessages
                      = FixMessages(TranslateMessages(RemoveAt(request.messages, m), << >>))

\* A System message with text followed by a User message of two tool-use parts:
\* one wire message, the System one.
C12_Witness ==
    /\ Translated
    /\ \E m \in MsgIndexes : OnlyToolUse(m) /\ Len(request.messages[m].content) = 2
    /\ Len(WireMessages) = 1
    /\ WireMessages[1].role = "System"

\* The parts of the request in order, each with the role of its message.
RECURSIVE FlatParts(_)
FlatParts(messages) ==
    IF messages = << >> THEN << >>
    ELSE [j \in 1..Len(Head(messages).content) |->
             [role |-> Head(messages).role, part |-> Head(messages).content[j]]]
         \o FlatParts(Tail(messages))

IsUserToolResult(x) == x.role = "User" /\ x.part.kind = "ToolResult"

IsToolWire(w) == w.role = "Tool"

UserToolResults == SelectSeq(FlatParts(request.messages), IsUserToolResult)

WireTools == SelectSeq(WireMessages, IsToolWire)

\* C13: the Tool wire messages are, in order, one per tool-result part of the
\* User messages, each with that part's tool-use id as tool_call_id; tool-result
\* parts of Assistant and System messages give none.
C13_OneToolMessagePerUserToolResult ==
    Translated =>
        /\ Len(WireTools) = Len(UserToolResults)
        /\ Count(WireOfRole("Tool"))
              = Count({ p \in Positions : IsUserMessage(p[1]) /\ PartAt(p).kind = "ToolResult" })
        /\ \A k \in 1..Len(WireTools) :
              /\ WireTools[k].tool_call_id = UserToolResults[k].part.tool_use_id
              /\ WireTools[k].content = ToolResultText(UserToolResults[k].part.content)

\* A User message with two tool results of different ids, one of them an image,
\* and an Assistant message with a tool result: two Tool wire messages.
C13_Witness ==
    /\ Translated
    /\ Len(UserToolResults) = 2
    /\ UserToolResults[1].part.tool_use_id # UserToolResults[2].part.tool_use_id
    /\ \E p \in Positions : ~IsUserMessage(p[1]) /\ PartAt(p).kind = "ToolResult"
    /\ Len(WireTools) = 2

IsToolResultPart(c) == c.kind = "ToolResult"

IsRepresentable(c) ==
    \/ c.kind = "Image"
    \/ c.kind \in {"Text", "Thinking"} /\ c.text # ""

TurnToolResults(m) == SelectSeq(request.messages[m].content, IsToolResultPart)

\* A User message with tool results and with text or an image.
Mixed(m) ==
    /\ IsUserMessage(m)
    /\ TurnToolResults(m) # << >>
    /\ \E j \in PartIndexes(m) : IsRepresentable(request.messages[m].content[j])

\* C14 as stated: the Tool wire messages of a mixed User turn come right after a
\* User wire message.
C14_ToolResultsFollowUserMessage ==
    Translated =>
        \A m \in MsgIndexes :
            Mixed(m) =>
                LET ids == TurnToolResults(m)
                IN  \E u \in WireIndexes :
                        /\ WireMessages[u].role = "User"
                        /\ u + Len(ids) <= Len(WireMessages)
                        /\ \A j \in 1..Len(ids) :
                              /\ WireMessages[u + j].role = "Tool"
                              /\ WireMessages[u + j].tool_call_id = ids[j].tool_use_id

\* C14 amended: the Tool wire messages of a mixed User turn come, in part order,
\* before the User wire message of that turn, and the repair pass puts the
\* placeholder Assistant message between the last of them and the User message.
C14_ToolResultsPrecedeUserMessage ==
    Translated =>
        \A m \in MsgIndexes :
            Mixed(m) =>
                LET f == FixMessages(After(m))
                    n == Len(f)
                    ids == TurnToolResults(m)
                    k == Len(ids)
                IN  /\ n >= k + 2
                    /\ n <= Len(WireMessages)
                    /\ SubSeq(WireMessages, 1, n) = f
                    /\ f[n].role = "User"
                    /\ f[n - 1] = Placeholder
                    /\ \A j \in 1..k :
                          /\ f[n - 2 - k + j].role = "Tool"
                          /\ f[n - 2 - k + j].tool_call_id = ids[j].tool_use_id

\* A User message with two tool results and text: Tool, Tool, placeholder, User.
C14_Witness ==
    /\ Translated
    /\ \E m \in MsgIndexes : Mixed(m) /\ Len(TurnToolResults(m)) = 2
    /\ Len(WireMessages) = 4
    /\ WireMessages[4].role = "User"

TextThenImage(m) ==
    /\ IsUserMessage(m)
    /\ Len(request.messages[m].content) = 2
    /\ request.messages[m].content[1].kind = "Text"
    /\ request.messages[m].content[1].text # ""
    /\ request.messages[m].content[2].kind = "Image"

\* C15: a User message of one non-empty text part followed by one image part
\* gives exactly one wire message, a User message whose content is multipart of
\* length 2: the text part with the original text, then the image reference.
C15_TextThenImageIsMultipart ==
    Translated =>
        \A m \in MsgIndexes :
            TextThenImage(m) =>
                LET out == TurnOutput(m)
                    c == request.messages[m].content
                IN  /\ Len(out) = 1
                    /\ out[1].role = "User"
                    /\ out[1].content.kind = "Multipart"
                    /\ Len(out[1].content.content) = 2
                    /\ out[1].content.content[1] = [type |-> "text", text |-> c[1].text]
                    /\ out[1].content.content[2].type = "image_url"
                    /\ out[1].content.content[2].image_url
                          = "data:image/png;base64," \o c[2].source
                    /\ Len(request.messages) = 1 => WireMessages = out

\* The request is one User message of text then image, translated.
C15_Witness ==
    /\ Translated
    /\ Len(request.messages) = 1
    /\ TextThenImage(1)
    /\ Len(WireMessages) = 1
    /\ WireMessages[1].content.kind = "Multipart"

(* ---------------------------------------------------------------------- *)
(* stream_completion behind the request limiter                            *)
(* ---------------------------------------------------------------------- *)
ApiKeys == { "k1" }

\* Variant of the limited future that sends the request with an empty key.
StreamFutureDefaultKey(key) ==
    [ok |-> TRUE, error |-> "", sent |-> << IF key = None THEN "" ELSE Unwrap(key) >>]

\* The future handed to request_limiter.stream, up to the network request:
\* api_key.context("Missing Mistral API Key")?, then mistral::stream_completion.
StreamFuture(key) ==
    IF key = None
    THEN [ok |-> FALSE, error |-> "Missing Mistral API Key", sent |-> << >>]
    ELSE [ok |-> TRUE, error |-> "", sent |-> << Unwrap(key) >>]

\* Variant in which the future reads the key from the state when it runs.
KeyForRequestCurrent(c) == api_key

\* The key moved into the future: the `api_key` bound when the state was read.
KeyForRequest(c) == streams[c].api_key

\* The closure at the end of set_api_key.
SetApiKey ==
    /\ \E k \in ApiKeys : api_key' = Some(k)
    /\ UNCHANGED << streams, permits, waited, authVars, translateVars, mapperVars >>

\* The closure at the end of reset_api_key.
ResetApiKey ==
    /\ api_key' = None
    /\ api_key_from_env' = FALSE
    /\ UNCHANGED << streams, permits, waited, stored, tasks, translateVars, mapperVars >>

\* stream_completion up to the call of request_limiter.stream: the key is read
\* from the state here, or the read fails because the app state is gone.
StreamCompletion(c) ==
    /\ streams[c].pc = "idle"
    /\ \/ /\ streams' = [streams EXCEPT ![c] =
                            [@ EXCEPT !.pc = "done", !.result = "App state dropped"]]
          /\ UNCHANGED waited
       \/ /\ streams' = [streams EXCEPT ![c] =
                            [@ EXCEPT !.pc = "waiting", !.api_key = api_key]]
          /\ waited' = IF permits = 0 /\ waited = None THEN Some(c) ELSE waited
    /\ UNCHANGED << api_key, permits, authVars, translateVars, mapperVars >>

\* RateLimiter::stream: the call takes a permit and runs its future to the
\* network request; a future that fails gives the permit back at once.
Acquire(c) ==
    /\ streams[c].pc = "waiting"
    /\ permits > 0
    /\ LET r == StreamFuture(KeyForRequest(c))
       IN  IF r.ok
           THEN /\ streams' = [streams EXCEPT ![c] =
                                  [@ EXCEPT !.pc = "inflight", !.sent = r.sent]]
                /\ permits' = permits - 1
           ELSE /\ streams' = [streams EXCEPT ![c] =
                                  [@ EXCEPT !.pc = "done", !.result = r.error]]
                /\ UNCHANGED permits
    /\ UNCHANGED << api_key, waited, authVars, translateVars, mapperVars >>

\* The request fails, or the response stream is dropped: the permit goes back.
Finish(c) ==
    /\ streams[c].pc = "inflight"
    /\ \E res \in { "ok", "request failed" } :
          streams' = [streams EXCEPT ![c] = [@ EXCEPT !.pc = "done", !.result = res]]
    /\ permits' = permits + 1
    /\ UNCHANGED << api_key, waited, authVars, translateVars, mapperVars >>

InitLimiter ==
    /\ request = EmptyRequest
    /\ wire = None
    /\ MapperIdle
    /\ LimiterIdle

NextLimiter ==
    \/ SetApiKey
    \/ ResetApiKey
    \/ \E c \in Calls : StreamCompletion(c)
    \/ \E c \in Calls : Acquire(c)
    \/ \E c \in Calls : Finish(c)

SpecLimiter == InitLimiter /\ [][NextLimiter]_vars

\* A call that can take a permit is eventually polled, and a call in flight
\* eventually ends.
SpecLimiterFair ==
    /\ SpecLimiter
    /\ \A c \in Calls : WF_vars(Acquire(c)) /\ WF_vars(Finish(c))

(* ---------------------------------------------------------------------- *)
(* Properties of stream_completion                                         *)
(* ---------------------------------------------------------------------- *)
InFlight == { c \in Calls : streams[c].pc = "inflight" }

Waiting == { c \in Calls : streams[c].pc = "waiting" }

\* C16: at most 4 calls of one model instance are in flight at the same time.
C16_AtMostFourInFlight == Cardinality(InFlight) <= 4

\* Four calls in flight and a fifth, with a key, waiting for a permit.
C16_Witness ==
    /\ Cardinality(InFlight) = 4
    /\ permits = 0
    /\ \E c \in Waiting : streams[c].api_key # None

\* C17: a call that waits for a permit eventually gets one and proceeds, and no
\* call that read a key ends without having sent its request.
C17_QueuedCallProceeds ==
    /\ \A c \in Calls :
          (streams[c].pc = "waiting") ~> (streams[c].pc \in { "inflight", "done" })
    /\ [](\A c \in Calls :
            (streams[c].pc = "done" /\ streams[c].api_key # None) =>
                /\ streams[c].sent = << Unwrap(streams[c].api_key) >>
                /\ streams[c].result \in { "ok", "request failed" })

\* The call that was set up while no permit was free has sent its request.
C17_Witness ==
    /\ waited # None
    /\ streams[Unwrap(waited)].sent # << >>
    /\ streams[Unwrap(waited)].pc \in { "inflight", "done" }

\* The call was set up (the state was read) and the state had no key.
SetUpWithoutKey(c) ==
    /\ streams[c].pc # "idle"
    /\ streams[c].result # "App state dropped"
    /\ streams[c].api_key = None

\* C18: a call set up while the state has no key sends no network request and
\* ends with 'Missing Mistral API Key'; once ended it is never run again.
C18_MissingKeyFailsBeforeRequest ==
    /\ [](\A c \in Calls :
            SetUpWithoutKey(c) =>
                /\ streams[c].sent = << >>
                /\ streams[c].pc # "inflight"
                /\ streams[c].pc = "done" => streams[c].result = "Missing Mistral API Key")
    /\ \A c \in Calls :
          SetUpWithoutKey(c) ~>
              (streams[c].pc = "done" /\ streams[c].result = "Missing Mistral API Key")
    /\ [][\A c \in Calls : streams[c].pc = "done" => streams'[c] = streams[c]]_vars

\* A call has ended with the missing-key error, without a request, although a
\* key was stored after the call was set up.
C18_Witness ==
    /\ api_key # None
    /\ \E c \in Calls :
          /\ SetUpWithoutKey(c)
          /\ streams[c].pc = "done"
          /\ streams[c].result = "Missing Mistral API Key"
          /\ streams[c].sent = << >>

(* ---------------------------------------------------------------------- *)
(* Properties of the fragment step of map_event                            *)
(* ---------------------------------------------------------------------- *)
\* The fragments of a chunk that address index i.
FragmentsFor(chunk, i) ==
    { k \in 1..Len(ChunkToolCalls(chunk)) : ChunkToolCalls(chunk)[k].index = i }

CarriesNoId(tc) == tc.id = None \/ tc.id = Some("")

\* C19 as stated: a chunk whose fragments for an entry carry no id or an empty
\* id leaves the id recorded for that entry unchanged.
C19_EmptyIdKeepsRecordedId ==
    [][(event' # None /\ ~Drains(Unwrap(event'))) =>
          \A i \in DOMAIN tool_calls_by_index :
              (\A k \in FragmentsFor(Unwrap(event'), i) :
                  CarriesNoId(ChunkToolCalls(Unwrap(event'))[k]))
              => tool_calls_by_index'[i].id = tool_calls_by_index[i].id]_vars

\* The last chunk has a choice that carries tool-call fragments and nothing else.
OnlyFragments ==
    /\ HasChoice
    /\ Head(LastChunk.choices).delta.content = None
    /\ LastChunk.usage = None
    /\ LastFinish = None
    /\ ChunkToolCalls(LastChunk) # << >>

\* C20: a chunk whose choice carries only tool-call fragments returns no events.
C20_FragmentsEmitNoEvents == OnlyFragments => events = << >>

\* A chunk of fragments only, processed while an entry that it does not touch is
\* pending; no event was returned.
C20_Witness ==
    /\ OnlyFragments
    /\ \E i \in DOMAIN tool_calls_by_index : FragmentsFor(LastChunk, i) = {}
    /\ \E i \in DOMAIN tool_calls_by_index : FragmentsFor(LastChunk, i) # {}
    /\ events = << >>

(* ---------------------------------------------------------------------- *)
(* Properties of the result of map_event                                   *)
(* ---------------------------------------------------------------------- *)
StopEvents == EventsOfType({"Stop"})

\* C21: in the result of a chunk with a choice the events come in the order
\* text, usage, drained entries, stop; the text and the usage are there exactly
\* when the chunk carries them, drained entries only at "tool_calls", and one
\* stop event, the last event, exactly when the chunk has a finish reason.
C21_EventOrderWithinChunk ==
    HasChoice =>
        LET nt == IF IsSome(Head(LastChunk.choices).delta.content) THEN 1 ELSE 0
            nu == IF IsSome(LastChunk.usage) THEN 1 ELSE 0
            nd == Cardinality(DOMAIN drained)
            ns == IF LastFinish # None THEN 1 ELSE 0
        IN  /\ Len(events) = nt + nu + nd + ns
            /\ EventsOfType({"Text"}) = 1..nt
            /\ EventsOfType({"UsageUpdate"}) = (nt + 1)..(nt + nu)
            /\ DrainEvents = (nt + nu + 1)..(nt + nu + nd)
            /\ StopEvents = (nt + nu + nd + 1)..(nt + nu + nd + ns)
            /\ nd > 0 => LastFinish = Some("tool_calls")
            /\ Cardinality(StopEvents) <= 1
            /\ StopEvents # {} => Last(events).type = "Stop"

\* A chunk with text, usage and finish reason "tool_calls" that drains two
\* entries: five events.
C21_Witness ==
    /\ LastDrained
    /\ IsSome(Head(LastChunk.choices).delta.content)
    /\ IsSome(LastChunk.usage)
    /\ Cardinality(DOMAIN drained) = 2
    /\ Len(events) = 5
    /\ events[5] = Stop("ToolUse")

HasBadJson(tc) == IsComplete(tc) /\ ~IsValidJson(tc.arguments)

\* C22: at a "tool_calls" finish every entry with id and name whose argument
\* text is not valid JSON yields a parse-error event with the raw text, and
\* neither an error nor a tool-use event; the other entries are drained too and
\* stream-stop(tool-use) ends the result.
C22_BadJsonIsParseErrorEvent ==
    LastDrained =>
        /\ Cardinality(EventsOfType({"ToolUseJsonParseError"}))
              = Cardinality({ i \in DOMAIN drained : HasBadJson(drained[i]) })
        /\ \A i \in DOMAIN drained :
              HasBadJson(drained[i]) =>
                 \E k \in EventsOfType({"ToolUseJsonParseError"}) :
                    /\ events[k].id = drained[i].id
                    /\ events[k].tool_name = drained[i].name
                    /\ events[k].raw_input = drained[i].arguments
        /\ \A k \in EventsOfType({"ToolUseJsonParseError"}) :
              ~IsValidJson(events[k].raw_input)
        /\ Cardinality(EventsOfType({"Error"}))
              = Cardinality({ i \in DOMAIN drained : ~IsComplete(drained[i]) })
        /\ Cardinality(DrainEvents) = Cardinality(DOMAIN drained)
        /\ Last(events) = Stop("ToolUse")

\* A drain of one entry with unparsable arguments and one with valid arguments:
\* a parse-error event and a tool-use event, then the stop.
C22_Witness ==
    /\ LastDrained
    /\ \E i, j \in DOMAIN drained :
          /\ HasBadJson(drained[i]) /\ drained[i].arguments # << >>
          /\ IsComplete(drained[j]) /\ IsValidJson(drained[j].arguments)
    /\ EventsOfType({"ToolUseJsonParseError"}) # {}
    /\ EventsOfType({"ToolUse"}) # {}
    /\ Last(events) = Stop("ToolUse")

\* C26: a chunk whose finish reason is not "tool_calls" removes no entry and
\* leaves the entries its own fragments do not address as they were, and its
\* result has no drained entry; tool-use and parse-error events come only from a
\* "tool_calls" chunk, which takes every entry that was pending.
C26_OnlyToolCallsFinishDrains ==
    [][(event' # None /\ Unwrap(event').choices # << >>) =>
          IF Head(Unwrap(event').choices).finish_reason # Some("tool_calls")
          THEN /\ DOMAIN tool_calls_by_index \subseteq DOMAIN tool_calls_by_index'
               /\ \A i \in DOMAIN tool_calls_by_index :
                     FragmentsFor(Unwrap(event'), i) = {} =>
                        tool_calls_by_index'[i] = tool_calls_by_index[i]
               /\ \A k \in 1..Len(events') :
                     events'[k].type \notin {"ToolUse", "ToolUseJsonParseError", "Error"}
               /\ drained' = EmptyMap
          ELSE /\ DOMAIN tool_calls_by_index \subseteq DOMAIN drained'
               /\ \A i \in DOMAIN tool_calls_by_index :
                     FragmentsFor(Unwrap(event'), i) = {} =>
                        /\ drained'[i] = tool_calls_by_index[i]
                        /\ \E k \in 1..Len(events') :
                              events'[k] = ProcessToolCall(tool_calls_by_index[i])
               /\ tool_calls_by_index' = EmptyMap]_vars

\* A chunk with finish reason "stop" was processed while a complete entry was
\* pending; the entry is still there and no event was emitted for it.
C26_Witness ==
    /\ HasChoice
    /\ LastFinish = Some("stop")
    /\ \E i \in DOMAIN tool_calls_by_index :
          /\ FragmentsFor(LastChunk, i) = {}
          /\ IsComplete(tool_calls_by_index[i])
    /\ events = << Stop("EndTurn") >>

\* The id, name and argument text the fragments of a list give to index i,
\* starting from entry e.
RECURSIVE Folded(_, _, _)
Folded(e, tool_calls, i) ==
    IF tool_calls = << >> THEN e
    ELSE LET tc == Head(tool_calls)
             f == IF IsSome(tc.function) THEN Unwrap(tc.function)
                  ELSE FunctionChunk(None, None)
         IN  IF tc.index # i THEN Folded(e, Tail(tool_calls), i)
             ELSE Folded([id |-> IF IsSome(tc.id) THEN Unwrap(tc.id) ELSE e.id,
                          name |-> IF IsSome(f.name) THEN Unwrap(f.name) ELSE e.name,
                          arguments |-> IF IsSome(f.arguments)
                                        THEN e.arguments \o Unwrap(f.arguments)
                                        ELSE e.arguments],
                         Tail(tool_calls), i)

EntryBefore(i) ==
    IF i \in DOMAIN tool_calls_by_index THEN tool_calls_by_index[i] ELSE DefaultRawToolCall

\* C27: the fragments of the chunk that carries "tool_calls" are applied before
\* the drain: each entry they address is drained with their id, name and
\* argument text, and that is the entry its event is built from.
C27_FinishChunkFragmentsApplied ==
    [][(event' # None /\ Drains(Unwrap(event'))) =>
          \A i \in Indexes :
              FragmentsFor(Unwrap(event'), i) # {} =>
                 LET e == Folded(EntryBefore(i), ChunkToolCalls(Unwrap(event')), i)
                 IN  /\ i \in DOMAIN drained'
                     /\ drained'[i] = e
                     /\ \E k \in 1..Len(events') :
                           /\ events'[k].type # "Stop"
                           /\ IF HasBadJson(e)
                              THEN events'[k] = ToolUseJsonParseError(e, JsonErr.error)
                              ELSE IF IsComplete(e)
                              THEN /\ events'[k].type = "ToolUse"
                                   /\ events'[k].id = e.id
                                   /\ events'[k].name = e.name
                                   /\ events'[k].raw_input = e.arguments
                              ELSE events'[k].type = "Error"]_vars

\* The first chunk of a stream carries id, name and argument text together with
\* "tool_calls", and the tool-use event has them.
C27_Witness ==
    /\ LastDrained
    /\ nchunks = 1
    /\ Len(ChunkToolCalls(LastChunk)) = 2
    /\ \E k \in EventsOfType({"ToolUse"}) :
          /\ events[k].id = "a"
          /\ events[k].name = "f"
          /\ events[k].raw_input = << "1" >>

(* ---------------------------------------------------------------------- *)
(* Properties of map_stream                                                *)
(* ---------------------------------------------------------------------- *)
TransportFailed == transport = "failed"

IsAssistantToolUse(x) == x.role = "Assistant" /\ x.part.kind = "ToolUse"

AssistantToolUses == SelectSeq(FlatParts(request.messages), IsAssistantToolUse)

\* The tool calls of a message list, in order.
RECURSIVE ToolCallsOf(_)
ToolCallsOf(messages) ==
    IF messages = << >> THEN << >>
    ELSE (IF Head(messages).role = "Assistant" THEN Head(messages).tool_calls ELSE << >>)
         \o ToolCallsOf(Tail(messages))

\* The message list before and after the Assistant arm handles part j of message m.
BeforePart(m, j) ==
    AssistantTurn(SubSeq(request.messages[m].content, 1, j - 1), Before(m))

AfterPart(m, j) ==
    AssistantTurn(SubSeq(request.messages[m].content, 1, j), Before(m))

\* C23: a tool-use part of an Assistant message is appended to the tool calls of
\* the last message built so far when that message is an Assistant message, and
\* otherwise starts a new Assistant message without text; the tool calls of the
\* wire messages are the Assistant tool-use parts of the request, in order.
C23_ToolUseJoinsTrailingAssistant ==
    Translated =>
        /\ \A p \in Positions :
              (request.messages[p[1]].role = "Assistant" /\ PartAt(p).kind = "ToolUse") =>
                 LET pre == BeforePart(p[1], p[2])
                     post == AfterPart(p[1], p[2])
                     rec == [id |-> PartAt(p).id,
                             function |-> [name |-> PartAt(p).name,
                                           arguments |-> ToJsonString(PartAt(p).input)]]
                 IN  IF pre # << >> /\ Last(pre).role = "Assistant"
                     THEN /\ Len(post) = Len(pre)
                          /\ Front(post) = Front(pre)
                          /\ Last(post).role = "Assistant"
                          /\ Last(post).content = Last(pre).content
                          /\ Last(post).tool_calls = Append(Last(pre).tool_calls, rec)
                     ELSE /\ post = Append(pre, [role |-> "Assistant", content |-> None,
                                                 tool_calls |-> << rec >>])
        /\ Len(ToolCallsOf(WireMessages)) = Len(AssistantToolUses)
        /\ \A k \in 1..Len(AssistantToolUses) :
              /\ ToolCallsOf(WireMessages)[k].id = AssistantToolUses[k].part.id
              /\ ToolCallsOf(WireMessages)[k].function.name = AssistantToolUses[k].part.name

\* An Assistant message with text followed by an Assistant message with two
\* different tool uses: one wire message with the text and both tool calls.
C23_Witness ==
    /\ Translated
    /\ Len(request.messages) = 2
    /\ Len(request.messages[2].content) = 2
    /\ Len(WireMessages) = 1
    /\ WireMessages[1].role = "Assistant"
    /\ WireMessages[1].content = Some("hi")
    /\ Len(WireMessages[1].tool_calls) = 2
    /\ WireMessages[1].tool_calls[1].id # WireMessages[1].tool_calls[2].id

\* The message list into_mistral has before the repair pass.
PreRepair == TranslateMessages(request.messages, << >>)

IsPlaceholder(w) == w.role = "Assistant" /\ w.content = Some(" ") /\ w.tool_calls = << >>

\* The positions the repair pass inserted at: a placeholder between a Tool and a
\* User message.
Inserted ==
    { k \in WireIndexes :
        /\ IsPlaceholder(WireMessages[k])
        /\ k > 1 /\ WireMessages[k - 1].role = "Tool"
        /\ k < Len(WireMessages) /\ WireMessages[k + 1].role = "User" }

RECURSIVE Without(_, _, _)
Without(s, k, S) ==
    IF k > Len(s) THEN << >>
    ELSE (IF k \in S THEN << >> ELSE << s[k] >>) \o Without(s, k + 1, S)

ToolUserPairs(s) ==
    { k \in 1..(Len(s) - 1) : s[k].role = "Tool" /\ s[k + 1].role = "User" }

\* C28: the repair pass only inserts: the wire messages without the inserted
\* placeholders are the pre-repair messages, there is one placeholder per
\* adjacent Tool -> User pair of the pre-repair messages, and a placeholder has
\* the text " " and no tool calls.
C28_RepairOnlyInserts ==
    Translated =>
        /\ Without(WireMessages, 1, Inserted) = PreRepair
        /\ Cardinality(Inserted) = Cardinality(ToolUserPairs(PreRepair))
        /\ Len(WireMessages) = Len(PreRepair) + Cardinality(Inserted)
        /\ \A k \in Inserted :
              /\ WireMessages[k].content = Some(" ")
              /\ WireMessages[k].tool_calls = << >>

\* A System message, then a User turn with a tool result and text: one
\* placeholder inserted into three pre-repair messages.
C28_Witness ==
    /\ Translated
    /\ Len(PreRepair) = 3
    /\ PreRepair[1].role = "System"
    /\ Cardinality(ToolUserPairs(PreRepair)) = 1
    /\ Cardinality(Inserted) = 1
    /\ Len(WireMessages) = 4

(* ---------------------------------------------------------------------- *)
(* Properties of the key a streaming call uses                             *)
(* ---------------------------------------------------------------------- *)
\* C25: the key a call holds is the state's key at the moment the call is set
\* up; it does not change afterwards, whatever set_api_key and reset_api_key do
\* to the state; and when the call gets its permit it sends its request with
\* that key, or fails for the missing key if it holds none.
C25_KeyReadAtSetup ==
    [][\A c \in Calls :
          /\ (streams[c].pc = "idle" /\ streams'[c].pc = "waiting") =>
                streams'[c].api_key = api_key
          /\ streams[c].pc # "idle" => streams'[c].api_key = streams[c].api_key
          /\ (streams[c].pc = "waiting" /\ streams'[c].pc # "waiting") =>
                IF streams[c].api_key = None
                THEN /\ streams'[c].sent = << >>
                     /\ streams'[c].result = "Missing Mistral API Key"
                ELSE /\ streams'[c].sent = << Unwrap(streams[c].api_key) >>
                     /\ streams'[c].pc = "inflight"]_vars

\* A call that was set up with a key while no permit was free is still waiting,
\* and the key has been reset in the meantime.
C25_Witness ==
    /\ api_key = None
    /\ waited # None
    /\ streams[Unwrap(waited)].pc = "waiting"
    /\ streams[Unwrap(waited)].api_key # None
    /\ permits = 0

(* ---------------------------------------------------------------------- *)
(* State: authenticate, set_api_key, reset_api_key                         *)
(* ---------------------------------------------------------------------- *)
\* The value of the environment variable MISTRAL_API_KEY, when it is set.
EnvKey == "env"

AuthTask(op, stage, key, from_env) ==
    [op |-> op, stage |-> stage, key |-> key, from_env |-> from_env]

streamVars == << streams, permits, waited >>

\* cx.spawn(..): the task is created and runs later.
Spawn(t) ==
    /\ Cardinality(tasks) < MaxTasks
    /\ t \notin tasks
    /\ tasks' = tasks \cup { t }

\* authenticate, up to cx.spawn: nothing is spawned when a key is present.
Authenticate ==
    /\ api_key = None
    /\ Spawn(AuthTask("authenticate", "start", None, FALSE))
    /\ UNCHANGED << api_key, api_key_from_env, stored, streamVars, translateVars, mapperVars >>

\* The task of authenticate up to this.update: the key comes from the
\* environment variable or, without it, from the credentials provider; the task
\* ends here when the provider fails or holds no key.
AuthenticateResolve(t) ==
    /\ t \in tasks
    /\ t.op = "authenticate" /\ t.stage = "start"
    /\ \/ tasks' = (tasks \ { t })
                      \cup { AuthTask("authenticate", "update", Some(EnvKey), TRUE) }
       \/ /\ stored # None
          /\ tasks' = (tasks \ { t }) \cup { AuthTask("authenticate", "update", stored, FALSE) }
       \/ tasks' = tasks \ { t }
    /\ UNCHANGED << api_key, api_key_from_env, stored, streamVars, translateVars, mapperVars >>

\* The closure at the end of authenticate.
AuthenticateUpdate(t) ==
    /\ t \in tasks
    /\ t.op = "authenticate" /\ t.stage = "update"
    /\ api_key' = t.key
    /\ api_key_from_env' = t.from_env
    /\ tasks' = tasks \ { t }
    /\ UNCHANGED << stored, streamVars, translateVars, mapperVars >>

\* set_api_key, up to cx.spawn.
SetApiKeyCall ==
    /\ \E k \in ApiKeys : Spawn(AuthTask("set", "start", Some(k), FALSE))
    /\ UNCHANGED << api_key, api_key_from_env, stored, streamVars, translateVars, mapperVars >>

\* write_credentials(..).await?: the key is stored, or the task ends with the error.
WriteCredentials(t) ==
    /\ t \in tasks
    /\ t.op = "set" /\ t.stage = "start"
    /\ \/ /\ stored' = t.key
          /\ tasks' = (tasks \ { t }) \cup { [t EXCEPT !.stage = "update"] }
       \/ /\ tasks' = tasks \ { t }
          /\ UNCHANGED stored
    /\ UNCHANGED << api_key, api_key_from_env, streamVars, translateVars, mapperVars >>

\* The closure at the end of set_api_key, run by its task.
SetApiKeyUpdate(t) ==
    /\ t \in tasks
    /\ t.op = "set" /\ t.stage = "update"
    /\ api_key' = t.key
    /\ tasks' = tasks \ { t }
    /\ UNCHANGED << api_key_from_env, stored, streamVars, translateVars, mapperVars >>

\* reset_api_key, up to cx.spawn.
ResetApiKeyCall ==
    /\ Spawn(AuthTask("reset", "start", None, FALSE))
    /\ UNCHANGED << api_key, api_key_from_env, stored, streamVars, translateVars, mapperVars >>

\* delete_credentials(..).await.log_err(): the task goes on whether or not the
\* key was deleted.
DeleteCredentials(t) ==
    /\ t \in tasks
    /\ t.op = "reset" /\ t.stage = "start"
    /\ stored' \in { None, stored }
    /\ tasks' = (tasks \ { t }) \cup { [t EXCEPT !.stage = "update"] }
    /\ UNCHANGED << api_key, api_key_from_env, streamVars, translateVars, mapperVars >>

\* Variant of the closure of reset_api_key that leaves api_key_from_env alone.
ResetApiKeyUpdateKeepsFlag(t) ==
    /\ t \in tasks
    /\ t.op = "reset" /\ t.stage = "update"
    /\ api_key' = None
    /\ tasks' = tasks \ { t }
    /\ UNCHANGED << api_key_from_env, stored, streamVars, translateVars, mapperVars >>

\* The closure at the end of reset_api_key, run by its task.
ResetApiKeyUpdate(t) ==
    /\ t \in tasks
    /\ t.op = "reset" /\ t.stage = "update"
    /\ api_key' = None
    /\ api_key_from_env' = FALSE
    /\ tasks' = tasks \ { t }
    /\ UNCHANGED << stored, streamVars, translateVars, mapperVars >>

\* The provider as constructed; the credentials provider may hold a key already.
InitAuth ==
    /\ request = EmptyRequest
    /\ wire = None
    /\ MapperIdle
    /\ api_key = None
    /\ streams = [c \in Calls |-> IdleStream]
    /\ permits = Permits
    /\ waited = None
    /\ api_key_from_env = FALSE
    /\ stored \in { None } \cup { Some(k) : k \in ApiKeys }
    /\ tasks = {}

NextAuth ==
    \/ Authenticate
    \/ SetApiKeyCall
    \/ ResetApiKeyCall
    \/ \E t \in tasks : AuthenticateResolve(t)
    \/ \E t \in tasks : AuthenticateUpdate(t)
    \/ \E t \in tasks : WriteCredentials(t)
    \/ \E t \in tasks : SetApiKeyUpdate(t)
    \/ \E t \in tasks : DeleteCredentials(t)
    \/ \E t \in tasks : ResetApiKeyUpdate(t)

SpecAuth == InitAuth /\ [][NextAuth]_vars

\* C29: whenever api_key_from_env is true, an API key is present.
C29_FromEnvImpliesKey == api_key_from_env => api_key # None

\* The flag is still true after set_api_key replaced the key taken from the
\* environment, while a reset task is about to clear both.
C29_Witness ==
    /\ api_key_from_env
    /\ api_key \in { Some(k) : k \in ApiKeys }
    /\ \E t \in tasks : t.op = "reset" /\ t.stage = "update"

====
